---- MODULE Spec2Model ----
(***************************************************************************)
(* Model of so_vits_svc_fork: the batch collator and the sequence dataset  *)
(* (data_utils.py) and the checkpoint / download helpers (utils.py).       *)
(*                                                                         *)
(* A tensor is modelled by its trailing (time) axis: a sequence whose      *)
(* elements stand for the columns of the tensor.  The leading axes live    *)
(* inside an element and are never touched by the modelled code.           *)
(***************************************************************************)
EXTENDS Integers, Sequences, FiniteSets, TLC

VARIABLES batch_in, collate_out,
          manifest, datapaths, hop_length, store, get_index, get_out,
          dir, clock, last_op, last_clean,
          model_sd, model_pre, optimizer, skip_optimizer, ckpt_file, load_out,
          fs, buffer, buffer_size, body, caller, pc, requests, attempts

collateVars == <<batch_in, collate_out>>
datasetVars == <<manifest, datapaths, hop_length, store, get_index, get_out>>
cleanVars == <<dir, clock, last_op, last_clean>>
loadVars == <<model_sd, model_pre, optimizer, skip_optimizer, ckpt_file, load_out>>
downloadVars == <<fs, buffer, buffer_size, body, caller, pc, requests, attempts>>
vars == <<collateVars, datasetVars, cleanVars, loadVars, downloadVars>>

----------------------------------------------------------------------------
(* Bounds of the collator inputs *)
MaxBatch == 3
MaxT == 2

(* Bounds of the dataset: manifest lines, frames above the crop limit, and
   audio samples missing at the end of a stored waveform *)
MaxLines == 2
MaxOver == 3
MaxTrunc == 1

(* Bounds of the checkpoint directory: writes of checkpoint files, and the
   largest n_ckpts_to_keep tried *)
MaxSaves == 3
MaxKeep == 2

(* Bounds of load_checkpoint: parameters of the model, sizes of a parameter *)
MaxParams == 2
MaxShape == 2

(* Bounds of download_file: chunks of the response body, bytes of a chunk,
   calls made, and bytes of the buffer of the file writer *)
MaxChunks == 3
MaxChunkBytes == 2
MaxAttempts == 2
MaxBuffer == 3

----------------------------------------------------------------------------
(* data_utils.py : _pad_stack and TextAudioCollate *)

\* the keys of a bundle that carry a time axis (every key but "spk")
TimeKeys == {"content", "f0", "spec", "mel_spec", "audio", "uv"}

\* an entry of the input list: <<>> is None, <<b>> is the bundle b
None == <<>>

Range(s) == {s[i] : i \in 1..Len(s)}

Zeros(n) == [i \in 1..n |-> 0]

\* mutant: zeros are put in front of the data
pad_left(x, n) == IF n >= 0 THEN Zeros(n) \o x ELSE SubSeq(x, 1, Len(x) + n)

\* F.pad(x, (0, n), mode="constant", value=0): n zeros appended on the
\* trailing axis; a negative n removes -n trailing columns
pad(x, n) == IF n >= 0 THEN x \o Zeros(n) ELSE SubSeq(x, 1, Len(x) + n)

\* torch.argmax over a 1-D tensor of sizes (index of the first maximum, 1-based)
argmax(sizes) ==
    CHOOSE i \in 1..Len(sizes) :
        /\ \A j \in 1..Len(sizes) : sizes[j] <= sizes[i]
        /\ \A j \in 1..(i - 1) : sizes[j] < sizes[i]

pad_stack(array) ==
    LET sizes == [i \in 1..Len(array) |-> Len(array[i])]
        max_idx == argmax(sizes)
        max_x == array[max_idx]
    IN  [i \in 1..Len(array) |-> pad(array[i], Len(max_x) - Len(array[i]))]

\* batch = [b for b in batch if b is not None]
RECURSIVE drop_none(_)
drop_none(batch) ==
    IF batch = <<>> THEN <<>>
    ELSE IF Head(batch) = None THEN drop_none(Tail(batch))
         ELSE <<Head(batch)[1]>> \o drop_none(Tail(batch))

sort_key(x) == Len(x.mel_spec)

\* mutant: ascending order
RECURSIVE sorted_ascending(_)
sorted_ascending(batch) ==
    IF batch = <<>> THEN <<>>
    ELSE LET n == Len(batch)
             rest == sorted_ascending(SubSeq(batch, 1, n - 1))
             x == batch[n]
             k == Cardinality({i \in 1..Len(rest) : sort_key(rest[i]) <= sort_key(x)})
         IN  SubSeq(rest, 1, k) \o <<x>> \o SubSeq(rest, k + 1, Len(rest))

\* sorted(batch, key=lambda x: x["mel_spec"].shape[1], reverse=True):
\* stable, so bundles of equal key keep their input order
RECURSIVE sorted(_)
sorted(batch) ==
    IF batch = <<>> THEN <<>>
    ELSE LET n == Len(batch)
             rest == sorted(SubSeq(batch, 1, n - 1))
             x == batch[n]
             k == Cardinality({i \in 1..Len(rest) : sort_key(rest[i]) >= sort_key(x)})
         IN  SubSeq(rest, 1, k) \o <<x>> \o SubSeq(rest, k + 1, Len(rest))

\* mutant: the lengths are taken after the sort
lengths_after_sort(batch) ==
    [i \in 1..Len(batch) |-> Len(sorted(batch)[i].mel_spec)]

\* lengths = torch.tensor([b["mel_spec"].shape[1] for b in batch]).long()
lengths_of(batch) == [i \in 1..Len(batch) |-> Len(batch[i].mel_spec)]

NoResults == [k \in TimeKeys \cup {"spk"} |-> <<>>]

\* mutant: an empty list is answered with an empty batch
TextAudioCollate_guarded(input) ==
    LET filtered == drop_none(input)
        lengths == lengths_of(filtered)
        batch == sorted(filtered)
    IN  [status |-> "ok", pad_calls |-> IF batch = <<>> THEN 0 ELSE Cardinality(TimeKeys),
         lengths |-> lengths,
         results |-> IF batch = <<>> THEN NoResults
                     ELSE [k \in TimeKeys \cup {"spk"} |->
                              IF k # "spk"
                              THEN pad_stack([i \in 1..Len(batch) |-> batch[i][k]])
                              ELSE [i \in 1..Len(batch) |-> <<batch[i][k]>>]]]

\* TextAudioCollate.__call__: status is "ok" or the exception raised,
\* pad_calls counts the calls of _pad_stack that were made
TextAudioCollate(input) ==
    LET filtered == drop_none(input)
        lengths == lengths_of(filtered)
        batch == sorted(filtered)
    IN  IF batch = <<>>
        THEN \* batch[0] on an empty list
             [status |-> "IndexError", pad_calls |-> 0,
              lengths |-> <<>>, results |-> NoResults]
        ELSE [status |-> "ok", pad_calls |-> Cardinality(TimeKeys),
              lengths |-> lengths,
              results |-> [k \in TimeKeys \cup {"spk"} |->
                              IF k # "spk"
                              THEN pad_stack([i \in 1..Len(batch) |-> batch[i][k]])
                              ELSE [i \in 1..Len(batch) |-> <<batch[i][k]>>]]]

\* the bundles the collator is tried on: the frame-rate tensors share the
\* frame count t, the audio has its own length a, so that the longest audio
\* need not belong to the bundle of most frames; the column at position p
\* of a tensor holds (spk + p) % 3, so zero columns occur in the data too
Column(s, p) == (s + p) % 3

AudioLens == {1, 2}
SpeakerIds == {0, 1}

Bundle(t, a, s) ==
    [content  |-> [p \in 1..t |-> Column(s, p)],
     f0       |-> [p \in 1..t |-> Column(s + 1, p)],
     spec     |-> [p \in 1..t |-> Column(s + 2, p)],
     mel_spec |-> [p \in 1..t |-> Column(s, p + 1)],
     audio    |-> [p \in 1..a |-> Column(s + 1, p + 1)],
     uv       |-> [p \in 1..t |-> Column(s + 2, p + 1)],
     spk      |-> s]

Bundles == {Bundle(t, a, s) : t \in 0..MaxT, a \in AudioLens, s \in SpeakerIds}

Entries == {None} \cup {<<b>> : b \in Bundles}

BatchInputs == UNION {[1..n -> Entries] : n \in 0..MaxBatch}

NoOutput == [status |-> "none", pad_calls |-> 0,
             lengths |-> <<>>, results |-> NoResults]

CollateIdle == batch_in = <<>> /\ collate_out = NoOutput

\* one call of the collator on the list the data loader handed over
Collate ==
    /\ collate_out.status = "none"
    /\ collate_out' = TextAudioCollate(batch_in)
    /\ UNCHANGED batch_in
    /\ UNCHANGED <<datasetVars, cleanVars, loadVars, downloadVars>>

----------------------------------------------------------------------------
(* data_utils.py : TextAudioSpeakerLoader *)

MAX_SPEC_LEN == 800

\* the keys sliced by frame, the key sliced by sample, the key left alone
FrameKeys == {"content", "f0", "spec", "mel_spec", "uv"}

\* a loaded tensor is the window [lo, hi) of the columns of the stored one
Whole(len) == [lo |-> 0, hi |-> len]
Size(w) == w.hi - w.lo

Min(a, b) == IF a <= b THEN a ELSE b
Max(a, b) == IF a >= b THEN a ELSE b

\* x[..., s:e] for 0 <= s, 0 <= e: both ends are clamped to the size
Slice(w, s, e) ==
    LET a == Min(s, Size(w))
        b == Max(a, Min(e, Size(w)))
    IN  [lo |-> w.lo + a, hi |-> w.lo + b]

\* torch.load of a stored bundle: every frame-rate tensor has spec_len
\* columns, the waveform spec_len * hop_length samples less a truncation
load(file) ==
    [k \in FrameKeys \cup {"audio", "spk"} |->
        IF k = "spk" THEN Whole(0)
        ELSE IF k = "audio" THEN Whole(file.spec_len * hop_length - file.trunc)
        ELSE Whole(file.spec_len)]

\* random.randint(a, b): both ends included
randint(a, b) == a..b

\* mutant: the margin of 10 frames is forgotten
crop_end_no_margin(start) == start + MAX_SPEC_LEN

crop_end(start) == start + MAX_SPEC_LEN - 10

\* lines 37-43: the cut of every key of the bundle
cut(data, start) ==
    LET end == crop_end(start)
    IN  [k \in DOMAIN data |->
            IF k = "audio" THEN Slice(data[k], start * hop_length, end * hop_length)
            ELSE IF k = "spk" THEN data[k]
            ELSE Slice(data[k], start, end)]

\* mutant: a negative index is refused
list_index_no_wrap(n, index) ==
    IF 0 <= index /\ index < n THEN index + 1 ELSE 0

\* self.datapaths[index]: the 1-based position read, 0 for IndexError
list_index(n, index) ==
    IF 0 <= index /\ index < n THEN index + 1
    ELSE IF -n <= index /\ index < 0 THEN index + n + 1
    ELSE 0

\* TextAudioSpeakerLoader.__len__
dataset_len == Len(datapaths)

NoItem == [status |-> "none", data |-> <<>>]

\* TextAudioSpeakerLoader.__getitem__
GetItem ==
    \E index \in -(MaxLines + 1)..(MaxLines + 1) :
        /\ get_index' = index
        /\ LET pos == list_index(dataset_len, index)
           IN  IF pos = 0
               THEN get_out' = [status |-> "IndexError", data |-> <<>>]
               ELSE LET file == store[datapaths[pos]]
                    IN  IF ~file.exists
                        THEN get_out' = [status |-> "FileNotFoundError", data |-> <<>>]
                        ELSE IF file.spec_len > MAX_SPEC_LEN
                        THEN \E start \in randint(0, file.spec_len - MAX_SPEC_LEN) :
                                get_out' = [status |-> "ok",
                                            data |-> <<cut(load(file), start)>>]
                        ELSE get_out' = [status |-> "ok", data |-> <<load(file)>>]
        /\ UNCHANGED <<manifest, datapaths, hop_length, store>>
        /\ UNCHANGED <<collateVars, cleanVars, loadVars, downloadVars>>

HopLengths == {2, 512}

SpecLens == {MAX_SPEC_LEN - 10, MAX_SPEC_LEN, MAX_SPEC_LEN + 1, MAX_SPEC_LEN + MaxOver}

StoredFiles ==
    {[exists |-> FALSE, spec_len |-> 0, trunc |-> 0]}
    \cup [exists : {TRUE}, spec_len : SpecLens, trunc : 0..MaxTrunc]

Shuffles(lines) ==
    {f \in [1..Len(lines) -> Range(lines)] :
        \A a, b \in 1..Len(lines) : f[a] = f[b] => a = b}

DatasetIdle ==
    /\ manifest = <<>> /\ datapaths = <<>> /\ hop_length = 0
    /\ store = <<>> /\ get_index = 0 /\ get_out = NoItem

\* TextAudioSpeakerLoader.__init__: one path per manifest line, shuffled
DatasetInit ==
    /\ \E n \in 0..MaxLines :
          /\ manifest = [i \in 1..n |-> i]
          /\ store \in [1..n -> StoredFiles]
    /\ datapaths \in Shuffles(manifest)
    /\ hop_length \in HopLengths
    /\ get_index = 0
    /\ get_out = NoItem

----------------------------------------------------------------------------
(* utils.py : save_checkpoint and clean_checkpoints *)

\* a file of the model directory is named by the characters of its stem;
\* every modelled file carries the suffix ".pth".  dir maps a stem to the
\* modification time of the file, 0 when the file does not exist
Roles == {"D", "G"}
NumStrs == {<<"0">>, <<"1">>, <<"2">>, <<"1", "0">>}
Stems == {<<r, "_">> \o n : r \in Roles, n \in NumStrs}

DigitVal == [c \in {"0", "1", "2", "3", "4", "5", "6", "7", "8", "9"} |->
                CASE c = "0" -> 0 [] c = "1" -> 1 [] c = "2" -> 2 [] c = "3" -> 3
                  [] c = "4" -> 4 [] c = "5" -> 5 [] c = "6" -> 6 [] c = "7" -> 7
                  [] c = "8" -> 8 [] c = "9" -> 9]

IsDigit(c) == c \in DOMAIN DigitVal

\* the digits matched by (\d+) in re.match(r"[GD]_(\d+)", stem)
RECURSIVE digit_run(_)
digit_run(chars) ==
    IF chars = <<>> \/ ~IsDigit(Head(chars)) THEN <<>>
    ELSE <<Head(chars)>> \o digit_run(Tail(chars))

\* int() of a string of digits
RECURSIVE int(_)
int(digits) ==
    IF digits = <<>> THEN 0
    ELSE 10 * int(SubSeq(digits, 1, Len(digits) - 1)) + DigitVal[digits[Len(digits)]]

\* re.match(r"[GD]_\d+", p.stem)
re_match(stem) ==
    /\ Len(stem) >= 3
    /\ stem[1] \in {"G", "D"}
    /\ stem[2] = "_"
    /\ IsDigit(stem[3])

endswith(stem, suffix) ==
    /\ Len(stem) >= Len(suffix)
    /\ SubSeq(stem, Len(stem) - Len(suffix) + 1, Len(stem)) = suffix

name_key(stem) == int(digit_run(SubSeq(stem, 3, Len(stem))))
time_key(stem) == dir[stem]

\* the order of the role letters, "D" < "G"
RoleOrd(c) == IF c = "D" THEN 0 ELSE 1

\* path_key(p) < path_key(q) as tuples (role, key)
path_key_less(p, q, sort_by_time) ==
    \/ RoleOrd(p[1]) < RoleOrd(q[1])
    \/ /\ p[1] = q[1]
       /\ IF sort_by_time THEN time_key(p) < time_key(q)
          ELSE name_key(p) < name_key(q)

\* lines 205-214: the files that take part
models ==
    {stem \in Stems : dir[stem] # 0 /\ re_match(stem) /\ ~endswith(stem, <<"_", "0">>)}

\* sorted(models, key=path_key); the keys of the modelled files are distinct
RECURSIVE sorted_by_key(_, _)
sorted_by_key(S, sort_by_time) ==
    IF S = {} THEN <<>>
    ELSE LET least == CHOOSE p \in S :
                          \A q \in S \ {p} : path_key_less(p, q, sort_by_time)
         IN  <<least>> \o sorted_by_key(S \ {least}, sort_by_time)

\* list[:stop] of Python
slice_to(list, stop) ==
    LET k == IF stop < 0 THEN Max(stop + Len(list), 0) ELSE Min(stop, Len(list))
    IN  SubSeq(list, 1, k)

\* lines 218-225: the files unlinked, group by group
to_delete(n_ckpts_to_keep, sort_by_time) ==
    LET models_sorted == sorted_by_key(models, sort_by_time)
    IN  UNION {Range(slice_to(SelectSeq(models_sorted, LAMBDA p : p[1] = group_name),
                              0 - n_ckpts_to_keep)) : group_name \in Roles}

clean_checkpoints(n_ckpts_to_keep, sort_by_time) ==
    /\ dir' = [stem \in Stems |->
                  IF stem \in to_delete(n_ckpts_to_keep, sort_by_time) THEN 0
                  ELSE dir[stem]]
    /\ last_op' = "clean"
    /\ last_clean' = [n |-> n_ckpts_to_keep, sort_by_time |-> sort_by_time]
    /\ UNCHANGED clock

CleanCheckpoints ==
    /\ \E n \in 0..MaxKeep, sort_by_time \in BOOLEAN :
          clean_checkpoints(n, sort_by_time)
    /\ UNCHANGED <<collateVars, datasetVars, loadVars, downloadVars>>

\* save_checkpoint: torch.save writes the file, which takes the current time
SaveCheckpoint ==
    /\ clock <= MaxSaves
    /\ \E stem \in Stems : dir' = [dir EXCEPT ![stem] = clock]
    /\ clock' = clock + 1
    /\ last_op' = "save"
    /\ UNCHANGED last_clean
    /\ UNCHANGED <<collateVars, datasetVars, loadVars, downloadVars>>

CleanIdle ==
    /\ dir = [stem \in Stems |-> 0]
    /\ clock = 1
    /\ last_op = "none"
    /\ last_clean = [n |-> 0, sort_by_time |-> FALSE]

----------------------------------------------------------------------------
(* utils.py : load_checkpoint *)

\* a parameter is its shape and its value; the state dict of the model maps
\* every key to a parameter, the one of a checkpoint may lack keys
ParamKeys == 1..MaxParams
Absent == [present |-> FALSE, shape |-> 0, val |-> 0]

\* mutant: the shape of the saved parameter is not compared
entry_unchecked(k, v, saved_state_dict) ==
    IF ~saved_state_dict[k].present THEN v
    ELSE [shape |-> saved_state_dict[k].shape, val |-> saved_state_dict[k].val]

\* lines 141-150: new_state_dict[k].  KeyError (key not saved) and
\* AssertionError (shapes differ) both end in new_state_dict[k] = v
entry(k, v, saved_state_dict) ==
    IF ~saved_state_dict[k].present THEN v
    ELSE IF saved_state_dict[k].shape # v.shape THEN v
    ELSE [shape |-> saved_state_dict[k].shape, val |-> saved_state_dict[k].val]

\* torch.nn.Module.load_state_dict (strict): parameters of the right shape
\* are copied, and a parameter of another shape makes the call raise
load_state_dict(state_dict, new_state_dict) ==
    [status |-> IF \A k \in DOMAIN state_dict :
                      new_state_dict[k].shape = state_dict[k].shape
                THEN "ok" ELSE "RuntimeError",
     state_dict |-> [k \in DOMAIN state_dict |->
                        IF new_state_dict[k].shape = state_dict[k].shape
                        THEN new_state_dict[k] ELSE state_dict[k]]]

NoLoad == [status |-> "none", learning_rate |-> 0, iteration |-> 0]

LoadCheckpoint ==
    /\ load_out.status = "none"
    /\ IF ckpt_file = <<>>
       THEN \* Path(checkpoint_path).is_file() is false
            /\ load_out' = [status |-> "FileNotFoundError",
                            learning_rate |-> 0, iteration |-> 0]
            /\ UNCHANGED <<model_sd, optimizer>>
       ELSE LET checkpoint_dict == ckpt_file[1]
                saved_state_dict == checkpoint_dict.model
                new_state_dict == [k \in DOMAIN model_sd |->
                                      entry(k, model_sd[k], saved_state_dict)]
                loaded == load_state_dict(model_sd, new_state_dict)
            IN  /\ optimizer' =
                      IF optimizer # <<>> /\ ~skip_optimizer
                         /\ checkpoint_dict.optimizer # <<>>
                      THEN checkpoint_dict.optimizer ELSE optimizer
                /\ model_sd' = loaded.state_dict
                /\ load_out' =
                      IF loaded.status = "ok"
                      THEN [status |-> "ok",
                            learning_rate |-> checkpoint_dict.learning_rate,
                            iteration |-> checkpoint_dict.iteration]
                      ELSE [status |-> loaded.status,
                            learning_rate |-> 0, iteration |-> 0]
    /\ UNCHANGED <<model_pre, skip_optimizer, ckpt_file>>
    /\ UNCHANGED <<collateVars, datasetVars, cleanVars, downloadVars>>

\* the models and checkpoint files load_checkpoint is tried on: a fresh
\* model holds the value 1 in every parameter, a checkpoint the value 2
ModelDicts == [ParamKeys -> [shape : 1..MaxShape, val : {1}]]
SavedDicts == [ParamKeys -> {Absent} \cup [present : {TRUE}, shape : 1..MaxShape, val : {2}]]
CheckpointFiles ==
    {<<>>} \cup
    {<<c>> : c \in [model : SavedDicts, optimizer : {<<>>, <<"saved">>},
                    learning_rate : {3}, iteration : {0, 100}]}

LoadIdle ==
    /\ model_sd = <<>> /\ model_pre = <<>> /\ optimizer = <<>>
    /\ skip_optimizer = FALSE /\ ckpt_file = <<>> /\ load_out = NoLoad

LoadInit ==
    /\ model_sd \in ModelDicts
    /\ model_pre = model_sd
    /\ optimizer \in {<<>>, <<"fresh">>}
    /\ skip_optimizer \in BOOLEAN
    /\ ckpt_file \in CheckpointFiles
    /\ load_out = NoLoad

----------------------------------------------------------------------------
(* utils.py : download_file and ensure_pretrained_model *)

\* fs maps a path to <<>> (no such file) or <<content>>, the content being
\* the sequence of chunks the file holds on disk; a chunk is its position in
\* the body and its number of bytes.  buffer holds the chunks handed to
\* f.write that the buffered writer of temppath.open("wb") has not passed on
\* to the file yet; buffer_size is the size of that writer's buffer in bytes
filepath == "G_0.pth"

\* mutant: the data is written to the destination itself
temppath_in_place == "G_0.pth"

\* filepath.parent / f"{filepath.name}.download"
temppath == "G_0.pth.download"

Paths == {"G_0.pth", "G_0.pth.download"}

exists(path) == fs[path] # <<>>

\* the bytes held by a sequence of chunks
RECURSIVE nbytes(_)
nbytes(chunks) ==
    IF chunks = <<>> THEN 0 ELSE Head(chunks).bytes + nbytes(Tail(chunks))

\* f.write(data) of io.BufferedWriter with a buffer of size bytes: data that
\* fits into the free part of the buffer is only buffered; otherwise the
\* writer passes its buffer on to the file first, and then data goes to the
\* file too when it is larger than the whole buffer, into the buffer when not
buffered_write(disk, buf, data, size) ==
    IF data.bytes <= size - nbytes(buf)
    THEN [disk |-> disk, buffer |-> buf \o <<data>>]
    ELSE IF data.bytes > size
    THEN [disk |-> disk \o buf \o <<data>>, buffer |-> <<>>]
    ELSE [disk |-> disk \o buf, buffer |-> <<data>>]

\* ensure_pretrained_model: download_file is called for a missing file only
EnsureCheck ==
    /\ pc = "idle" /\ caller = "ensure" /\ attempts < MaxAttempts
    /\ attempts' = attempts + 1
    /\ pc' = IF ~exists(filepath) THEN "call" ELSE "skipped"
    /\ UNCHANGED <<fs, buffer, buffer_size, body, caller, requests>>
    /\ UNCHANGED <<collateVars, datasetVars, cleanVars, loadVars>>

\* a caller that calls download_file without looking
DirectCall ==
    /\ pc = "idle" /\ caller = "direct" /\ attempts < MaxAttempts
    /\ attempts' = attempts + 1
    /\ pc' = "call"
    /\ UNCHANGED <<fs, buffer, buffer_size, body, caller, requests>>
    /\ UNCHANGED <<collateVars, datasetVars, cleanVars, loadVars>>

\* lines 38-39
CheckExists ==
    /\ pc = "call"
    /\ pc' = IF exists(filepath) THEN "FileExistsError" ELSE "unlink"
    /\ UNCHANGED <<fs, buffer, buffer_size, body, caller, requests, attempts>>
    /\ UNCHANGED <<collateVars, datasetVars, cleanVars, loadVars>>

\* line 40: temppath.unlink(missing_ok=True)
Unlink ==
    /\ pc = "unlink"
    /\ fs' = [fs EXCEPT ![temppath] = <<>>]
    /\ pc' = "request"
    /\ UNCHANGED <<buffer, buffer_size, body, caller, requests, attempts>>
    /\ UNCHANGED <<collateVars, datasetVars, cleanVars, loadVars>>

\* line 41: requests.get(url, stream=True)
Request ==
    /\ pc = "request"
    /\ requests' = requests + 1
    /\ pc' = "open"
    /\ UNCHANGED <<fs, buffer, buffer_size, body, caller, attempts>>
    /\ UNCHANGED <<collateVars, datasetVars, cleanVars, loadVars>>

\* line 43: temppath.open("wb") creates the file or empties it
Open ==
    /\ pc = "open"
    /\ fs' = [fs EXCEPT ![temppath] = <<<<>>>>]
    /\ buffer' = <<>>
    /\ pc' = "write"
    /\ UNCHANGED <<buffer_size, body, caller, requests, attempts>>
    /\ UNCHANGED <<collateVars, datasetVars, cleanVars, loadVars>>

\* lines 50-52: the next chunk of the body is handed to f.write
WriteChunk ==
    /\ pc = "write"
    /\ exists(temppath)
    /\ Len(fs[temppath][1]) + Len(buffer) < Len(body)
    /\ LET data == body[Len(fs[temppath][1]) + Len(buffer) + 1]
           w == buffered_write(fs[temppath][1], buffer, data, buffer_size)
       IN  /\ fs' = [fs EXCEPT ![temppath] = <<w.disk>>]
           /\ buffer' = w.buffer
    /\ UNCHANGED <<buffer_size, body, caller, pc, requests, attempts>>
    /\ UNCHANGED <<collateVars, datasetVars, cleanVars, loadVars>>

\* the iteration ends with the body and the with block closes the file,
\* which passes the buffer on to the file
Close ==
    /\ pc = "write"
    /\ exists(temppath)
    /\ Len(fs[temppath][1]) + Len(buffer) = Len(body)
    /\ fs' = [fs EXCEPT ![temppath] = <<fs[temppath][1] \o buffer>>]
    /\ buffer' = <<>>
    /\ pc' = "rename"
    /\ UNCHANGED <<buffer_size, body, caller, requests, attempts>>
    /\ UNCHANGED <<collateVars, datasetVars, cleanVars, loadVars>>

\* line 53: temppath.rename(filepath)
Rename ==
    /\ pc = "rename"
    /\ fs' = [p \in Paths |->
                 IF p = filepath THEN fs[temppath]
                 ELSE IF p = temppath THEN <<>>
                 ELSE fs[p]]
    /\ pc' = "done"
    /\ UNCHANGED <<buffer, buffer_size, body, caller, requests, attempts>>
    /\ UNCHANGED <<collateVars, datasetVars, cleanVars, loadVars>>

\* an exception leaves download_file: from requests.get, from open, from a
\* read of the stream or from rename.  Inside the with block the file is
\* closed on the way out, so the buffered chunks still reach the file
Raise ==
    /\ pc \in {"request", "open", "write", "rename"}
    /\ fs' = IF pc = "write" /\ exists(temppath)
             THEN [fs EXCEPT ![temppath] = <<fs[temppath][1] \o buffer>>]
             ELSE fs
    /\ buffer' = <<>>
    /\ pc' = "failed"
    /\ UNCHANGED <<buffer_size, body, caller, requests, attempts>>
    /\ UNCHANGED <<collateVars, datasetVars, cleanVars, loadVars>>

\* the process is killed: what the writer still buffers is lost
Interrupt ==
    /\ pc \in {"unlink", "request", "open", "write", "rename"}
    /\ buffer' = <<>>
    /\ pc' = "failed"
    /\ UNCHANGED <<fs, buffer_size, body, caller, requests, attempts>>
    /\ UNCHANGED <<collateVars, datasetVars, cleanVars, loadVars>>

\* the caller comes back for another try
Again ==
    /\ pc \in {"failed", "done", "FileExistsError", "skipped"}
    /\ attempts < MaxAttempts
    /\ pc' = "idle"
    /\ UNCHANGED <<fs, buffer, buffer_size, body, caller, requests, attempts>>
    /\ UNCHANGED <<collateVars, datasetVars, cleanVars, loadVars>>

\* resp.iter_content: the body arrives as chunks of one byte or more
Bodies ==
    UNION {{[i \in 1..n |-> [id |-> i, bytes |-> sizes[i]]] :
               sizes \in [1..n -> 1..MaxChunkBytes]} : n \in 0..MaxChunks}

\* a file that download_file did not write
Stale == <<[id |-> 9, bytes |-> 1]>>

DownloadIdle ==
    /\ fs = [p \in Paths |-> <<>>] /\ buffer = <<>> /\ buffer_size = 1
    /\ body = <<>> /\ caller = "none"
    /\ pc = "idle" /\ requests = 0 /\ attempts = 0

\* before the first call the destination is missing or holds a file put
\* there by someone else, and a stale temporary file may lie around
DownloadInit ==
    /\ fs \in [Paths -> {<<>>, <<Stale>>}]
    /\ buffer = <<>>
    /\ buffer_size \in 1..MaxBuffer
    /\ body \in Bodies
    /\ caller \in {"direct", "ensure"}
    /\ pc = "idle" /\ requests = 0 /\ attempts = 0

----------------------------------------------------------------------------
(* Specifications *)

CollateInit ==
    /\ batch_in \in BatchInputs /\ collate_out = NoOutput
    /\ DatasetIdle /\ CleanIdle /\ LoadIdle /\ DownloadIdle
CollateNext == Collate
SpecCollate == CollateInit /\ [][CollateNext]_vars

InitDataset == DatasetInit /\ CollateIdle /\ CleanIdle /\ LoadIdle /\ DownloadIdle
NextDataset == GetItem
SpecDataset == InitDataset /\ [][NextDataset]_vars

InitClean == CleanIdle /\ CollateIdle /\ DatasetIdle /\ LoadIdle /\ DownloadIdle
NextClean == SaveCheckpoint \/ CleanCheckpoints
SpecClean == InitClean /\ [][NextClean]_vars

InitLoad == LoadInit /\ CollateIdle /\ DatasetIdle /\ CleanIdle /\ DownloadIdle
NextLoad == LoadCheckpoint
SpecLoad == InitLoad /\ [][NextLoad]_vars

InitDownload == DownloadInit /\ CollateIdle /\ DatasetIdle /\ CleanIdle /\ LoadIdle
NextDownload ==
    \/ EnsureCheck \/ DirectCall \/ CheckExists \/ Unlink \/ Request \/ Open
    \/ WriteChunk \/ Close \/ Rename \/ Raise \/ Interrupt \/ Again
SpecDownload == InitDownload /\ [][NextDownload]_vars

----------------------------------------------------------------------------
(* Properties of the collator *)

\* C1: after a successful collation the lengths output lists the mel_spec
\* frame counts of the non-null bundles in the order of the input list
C1_LengthsInInputOrder ==
    collate_out.status = "ok" =>
        LET nn == SelectSeq(batch_in, LAMBDA e : e # <<>>)
        IN  collate_out.lengths = [i \in 1..Len(nn) |-> Len(nn[i][1].mel_spec)]

\* the case [50, 200, 10] of the specification, scaled to [1, 2, 0]: the
\* lengths come back as given while the longest bundle is stacked first
C1_Witness ==
    /\ collate_out.status = "ok"
    /\ Len(batch_in) = 3
    /\ collate_out.lengths = <<1, 2, 0>>
    /\ collate_out.results["spk"][1] = <<batch_in[2][1].spk>>

\* C2: one permutation of the non-null bundles gives the order of the rows
\* of every stacked tensor, and along it the original mel_spec frame count
\* never increases
C2_OneOrderNonIncreasing ==
    collate_out.status = "ok" =>
        LET nn == SelectSeq(batch_in, LAMBDA e : e # <<>>)
            n == Len(nn)
        IN  \E perm \in {f \in [1..n -> 1..n] : \A a, b \in 1..n : f[a] = f[b] => a = b} :
                /\ \A k \in TimeKeys :
                      /\ Len(collate_out.results[k]) = n
                      /\ \A j \in 1..n :
                            LET orig == nn[perm[j]][1][k]
                                row == collate_out.results[k][j]
                            IN  /\ Len(row) >= Len(orig)
                                /\ SubSeq(row, 1, Len(orig)) = orig
                /\ collate_out.results["spk"] = [j \in 1..n |-> <<nn[perm[j]][1].spk>>]
                /\ \A j \in 1..(n - 1) :
                      Len(nn[perm[j]][1].mel_spec) >= Len(nn[perm[j + 1]][1].mel_spec)

\* an input given in increasing length comes back longest first
C2_Witness ==
    /\ collate_out.status = "ok"
    /\ Len(batch_in) = 3
    /\ \A i \in 1..3 : batch_in[i] # <<>> /\ Len(batch_in[i][1].mel_spec) = i - 1
    /\ batch_in[1][1].spk # batch_in[3][1].spk
    /\ collate_out.results["spk"] =
          <<<<batch_in[3][1].spk>>, <<batch_in[2][1].spk>>, <<batch_in[1][1].spk>>>>

\* C3: the lengths output of a successful collation never increases from
\* one position to the next
C3_LengthsNonIncreasing ==
    collate_out.status = "ok" =>
        \A i \in 1..(Len(collate_out.lengths) - 1) :
            collate_out.lengths[i] >= collate_out.lengths[i + 1]

\* C4: every row of a stacked time tensor is the bundle's own tensor followed
\* by zeros up to the largest trailing size of that key in the batch
C4_TrailingZeroPadding ==
    collate_out.status = "ok" =>
        LET nn == SelectSeq(batch_in, LAMBDA e : e # <<>>)
            n == Len(nn)
        IN  \E perm \in {f \in [1..n -> 1..n] : \A a, b \in 1..n : f[a] = f[b] => a = b} :
                \A k \in TimeKeys :
                    LET most == CHOOSE m \in {Len(nn[i][1][k]) : i \in 1..n} :
                                    \A i \in 1..n : Len(nn[i][1][k]) <= m
                    IN  /\ Len(collate_out.results[k]) = n
                        /\ \A j \in 1..n :
                              LET orig == nn[perm[j]][1][k]
                                  row == collate_out.results[k][j]
                              IN  /\ Len(row) = most
                                  /\ \A p \in 1..most :
                                        row[p] = IF p <= Len(orig) THEN orig[p] ELSE 0

\* the case "lengths 5 and 8" of the specification, scaled to 1 and 2: the
\* short bundle keeps its non-zero column and gets one zero behind it, and
\* the audio of the long bundle is padded to the audio of the short one
C4_Witness ==
    /\ collate_out.status = "ok"
    /\ Len(batch_in) = 2
    /\ batch_in[1] # <<>> /\ batch_in[2] # <<>>
    /\ Len(batch_in[1][1].mel_spec) = 1 /\ batch_in[1][1].mel_spec[1] # 0
    /\ Len(batch_in[2][1].mel_spec) = 2
    /\ Len(batch_in[1][1].audio) = 2 /\ Len(batch_in[2][1].audio) = 1
    /\ batch_in[2][1].audio[1] # 0
    /\ collate_out.results["mel_spec"][2] = <<batch_in[1][1].mel_spec[1], 0>>
    /\ collate_out.results["audio"][1] = <<batch_in[2][1].audio[1], 0>>

\* C7 as stated: on a list without bundles the collator raises nothing
\* before the padding of the modalities is reached
C7_Original ==
    (collate_out.status # "none" /\ SelectSeq(batch_in, LAMBDA e : e # <<>>) = <<>>)
        => (collate_out.status = "ok" \/ collate_out.pad_calls > 0)

\* C7 amended: on a list without bundles the collator raises IndexError when
\* it reads the keys of the first bundle; no tensor is padded, no batch returned
C7_EmptyRaisesIndexError ==
    (collate_out.status # "none" /\ SelectSeq(batch_in, LAMBDA e : e # <<>>) = <<>>)
        => /\ collate_out.status = "IndexError"
           /\ collate_out.pad_calls = 0
           /\ \A k \in DOMAIN collate_out.results : collate_out.results[k] = <<>>

C7_Witness ==
    /\ batch_in = <<None, None>>
    /\ collate_out.status = "IndexError"

----------------------------------------------------------------------------
(* Properties of the dataset *)

\* C5: a stored bundle of more than 800 frames comes back with 790 frames
\* in mel_spec, f0, spec and uv and 790 * hop_length audio samples, cut at
\* a start in [0, spec_len - 800] so that the window lies inside the bundle
C5_CropTo790 ==
    (get_out.status = "ok"
       /\ store[datapaths[IF get_index < 0 THEN get_index + Len(datapaths) + 1
                          ELSE get_index + 1]].spec_len > 800)
    => LET file == store[datapaths[IF get_index < 0 THEN get_index + Len(datapaths) + 1
                                   ELSE get_index + 1]]
           data == get_out.data[1]
           start == data["mel_spec"].lo
       IN  /\ \A k \in {"mel_spec", "f0", "spec", "uv"} :
                 data[k].hi - data[k].lo = 790 /\ data[k].lo = start
           /\ data["audio"].hi - data["audio"].lo = 790 * hop_length
           /\ data["audio"].lo = start * hop_length
           /\ 0 <= start /\ start <= file.spec_len - 800
           /\ start + 790 <= file.spec_len

\* the latest start of a bundle of 803 frames whose waveform lacks a sample
C5_Witness ==
    /\ get_out.status = "ok"
    /\ get_index = 0
    /\ Len(datapaths) > 0
    /\ store[datapaths[1]].spec_len = 800 + MaxOver
    /\ store[datapaths[1]].trunc = 1
    /\ hop_length = 512
    /\ get_out.data[1]["mel_spec"] = [lo |-> MaxOver, hi |-> MaxOver + 790]
    /\ get_out.data[1]["audio"] = [lo |-> MaxOver * 512, hi |-> (MaxOver + 790) * 512]

\* C6 as stated: a retrieval succeeds only for 0 <= index < length() and
\* fails with IndexError for every other index (a bundle file that is
\* missing is not held against the statement)
C6_Original ==
    /\ get_out.status = "ok" => (0 <= get_index /\ get_index < Len(datapaths))
    /\ (get_out.status \notin {"none", "FileNotFoundError"}
          /\ ~(0 <= get_index /\ get_index < Len(datapaths)))
          => (get_out.status = "IndexError" /\ get_out.data = <<>>)
    /\ Len(datapaths) = Len(manifest)

\* C6 amended: a retrieval succeeds only for -length() <= index < length(),
\* where a negative index reads the entry length() + index; every index
\* outside that range fails with IndexError; length() is the number of
\* manifest lines
C6_IndexRange ==
    /\ get_out.status # "none" =>
          LET n == Len(manifest)
              inside == -n <= get_index /\ get_index < n
          IN  /\ get_out.status = "ok" => inside
              /\ ~inside => (get_out.status = "IndexError" /\ get_out.data = <<>>)
              /\ inside =>
                    LET file == store[datapaths[IF get_index < 0 THEN get_index + n + 1
                                                ELSE get_index + 1]]
                    IN  /\ file.exists <=> get_out.status = "ok"
                        /\ ~file.exists <=> get_out.status = "FileNotFoundError"
                        /\ (file.exists /\ file.spec_len <= 800) =>
                              get_out.data[1]["mel_spec"] = [lo |-> 0, hi |-> file.spec_len]
    /\ Len(datapaths) = Len(manifest)

\* index -1 of a dataset of two bundles reads the last one
C6_Witness ==
    /\ Len(manifest) = 2
    /\ get_index = -1
    /\ store[datapaths[1]].spec_len = 790
    /\ store[datapaths[2]].spec_len = 800
    /\ get_out.status = "ok"
    /\ get_out.data[1]["mel_spec"] = [lo |-> 0, hi |-> 800]

----------------------------------------------------------------------------
(* Properties of the checkpoint directory *)

\* C8: a call of clean_checkpoints(dir, N, sort_by_time) leaves, in each
\* role, exactly the min(N, count) most recent files of a number other than
\* 0 (by modification time, or by number), deletes the other such files
\* and leaves the files numbered 0 alone
C8_KeepMostRecent ==
    [][last_op' = "clean" =>
          \A stem \in Stems :
              LET num(x) == name_key(x)
                  newer == {q \in Stems :
                               /\ dir[q] # 0 /\ q[1] = stem[1] /\ num(q) # 0
                               /\ IF last_clean'.sort_by_time THEN dir[q] > dir[stem]
                                  ELSE num(q) > num(stem)}
              IN  IF dir[stem] = 0 \/ num(stem) = 0 THEN dir'[stem] = dir[stem]
                  ELSE IF Cardinality(newer) < last_clean'.n THEN dir'[stem] = dir[stem]
                  ELSE dir'[stem] = 0]_vars

----------------------------------------------------------------------------
(* Properties of load_checkpoint *)

\* C9: a load from an existing checkpoint file does not raise, leaves the
\* parameters that the checkpoint lacks or holds in another shape at their
\* value from before the load, gives every other parameter the value of the
\* checkpoint, and returns the learning rate and iteration of the checkpoint
C9_PartialLoad ==
    (load_out.status # "none" /\ ckpt_file # <<>>) =>
        LET saved == ckpt_file[1].model
        IN  /\ load_out.status = "ok"
            /\ \A k \in DOMAIN model_pre :
                  IF saved[k].present /\ saved[k].shape = model_pre[k].shape
                  THEN model_sd[k] = [shape |-> saved[k].shape, val |-> saved[k].val]
                  ELSE model_sd[k] = model_pre[k]
            /\ load_out.learning_rate = ckpt_file[1].learning_rate
            /\ load_out.iteration = ckpt_file[1].iteration

\* one parameter of another shape is kept, the other one is loaded
C9_Witness ==
    /\ load_out.status = "ok"
    /\ load_out.iteration = 100
    /\ ckpt_file[1].model[1].present /\ ckpt_file[1].model[1].shape # model_pre[1].shape
    /\ ckpt_file[1].model[2].present /\ ckpt_file[1].model[2].shape = model_pre[2].shape
    /\ model_sd[1] = model_pre[1]
    /\ model_sd[2].val = 2 /\ model_pre[2].val = 1

----------------------------------------------------------------------------
(* Properties of download_file *)

\* C10: while download_file runs and after it ended or was interrupted the
\* destination is missing or holds the whole body, the whole body once the
\* call returned; a call made while the destination exists raises
\* FileExistsError with no request made and both files untouched; and the
\* destination is written by nothing but the rename of the finished
\* temporary file
C10_NoPartialDestination ==
    /\ [](/\ pc \in {"unlink", "request", "open", "write", "rename", "failed"}
             => fs["G_0.pth"] = <<>>
          /\ pc = "done" => fs["G_0.pth"] = <<body>>)
    /\ [][(pc = "call" /\ fs["G_0.pth"] # <<>>)
             => (pc' = "FileExistsError" /\ fs' = fs /\ requests' = requests)]_vars
    /\ [][fs'["G_0.pth"] # fs["G_0.pth"]
             => (pc = "rename" /\ pc' = "done" /\ fs'["G_0.pth"] = <<body>>
                 /\ fs["G_0.pth.download"] = <<body>>)]_vars

\* a download of chunks of 2, 2 and 1 bytes through a buffer of 3 bytes,
\* killed after the third f.write: the first chunk is in the temporary file,
\* the other two are lost with the buffer, and the destination does not exist
C10_Witness ==
    /\ pc = "failed"
    /\ Len(body) = 3
    /\ body[1].bytes = 2 /\ body[2].bytes = 2 /\ body[3].bytes = 1
    /\ buffer_size = 3
    /\ fs["G_0.pth.download"] = <<<<body[1]>>>>
    /\ fs["G_0.pth"] = <<>>
    /\ requests = 1

====
